---- MODULE Spec2Model ----
(***************************************************************************)
(* Model of "Peukert Generalizado 1.0.py": the generalized Peukert capacity *)
(* function, the classical Peukert runtime, the Levenberg-Marquardt         *)
(* parameter fit and the main driver.                                       *)
(*                                                                          *)
(* Numbers.  A Python/numpy number is a record [t, v]:                      *)
(*   t = "py"  a Python int/float,  t = "np"  a numpy float64 (scalar or    *)
(*   array element),  t = "cx" a Python complex (value not tracked),        *)
(*   t = "ZeroDivisionError" / "ValueError"  a raised exception.            *)
(*   v = <<p, q>> is the exact rational p/q (q > 0, lowest terms),          *)
(*   <<1,0>> is +inf, <<-1,0>> is -inf and <<0,0>> is NaN.                  *)
(* Floating-point rounding is not modelled: finite values are exact.        *)
(***************************************************************************)
EXTENDS Integers, Sequences, FiniteSets

\* ------------------------------------------------------------ bounds
\* Harness inputs are the integers -1..MaxIn (and the exponent 1/2).
MaxIn == 2
\* Stand-in for least_squares' max_nfev (100*n*(n+1) = 1200 for method='lm').
MaxNfev == 3

\* Evaluation order.  Python evaluates the operands of an expression once, before it
\* applies the operator; an operator F below is therefore written
\*     F(a, b) == CHOOSE r \in {FV(u[1], u[2]) : u \in {<<a, b>>}} : TRUE
\* which is FV applied to the values of a and b.

\* ------------------------------------------------------------ rationals
Abs(a) == IF a < 0 THEN -a ELSE a
Sign(a) == IF a < 0 THEN -1 ELSE IF a = 0 THEN 0 ELSE 1

RECURSIVE GCD(_, _)
GCD(a, b) ==
    IF b = 0 THEN a ELSE CHOOSE r \in {GCD(u[1], u[2]) : u \in {<<b, a % b>>}} : TRUE

\* p/q in lowest terms with a positive denominator; q = 0 gives inf/-inf/NaN.
NormV(p, q) ==
    IF q = 0 THEN <<Sign(p), 0>>
    ELSE LET g == GCD(Abs(p), Abs(q))
             s == Sign(q)
         IN  <<(s * p) \div g, (s * q) \div g>>
Norm(p, q) == CHOOSE r \in {NormV(u[1], u[2]) : u \in {<<p, q>>}} : TRUE

NaN == <<0, 0>>
PosInf == <<1, 0>>
NegInf == <<-1, 0>>
IsFiniteV(a) == a[2] # 0
IsNaNV(a) == a = NaN

\* IEEE-754 arithmetic on the extended rationals.
RNeg(a) == <<-a[1], a[2]>>
RAdd(a, b) ==
    IF a[2] = 0 /\ b[2] = 0
    THEN (IF a = b THEN a ELSE NaN)
    ELSE Norm(a[1] * b[2] + b[1] * a[2], a[2] * b[2])
RSub(a, b) == RAdd(a, RNeg(b))
\* a product of two finite non-zero values cancels crosswise before it multiplies,
\* which keeps the intermediate integers small and gives the same value
RMul(a, b) ==
    IF a[1] = 0 \/ a[2] = 0 \/ b[1] = 0 \/ b[2] = 0
    THEN Norm(a[1] * b[1], a[2] * b[2])
    ELSE CHOOSE r \in {Norm((a[1] \div g[1]) * (b[1] \div g[2]),
                            (a[2] \div g[2]) * (b[2] \div g[1])) :
                       g \in {<<GCD(Abs(a[1]), b[2]), GCD(Abs(b[1]), a[2])>>}} : TRUE
RDiv(a, b) == Norm(a[1] * b[2], a[2] * b[1])
RLess(a, b) == /\ ~IsNaNV(a) /\ ~IsNaNV(b) /\ a # b
               /\ IF a = NegInf \/ b = PosInf THEN TRUE
                  ELSE IF a = PosInf \/ b = NegInf THEN FALSE
                  ELSE a[1] * b[2] < b[1] * a[2]

\* ------------------------------------------------------------ typed numbers
Py(p, q) == [t |-> "py", v |-> Norm(p, q)]
Np(p, q) == [t |-> "np", v |-> Norm(p, q)]
Raised(name) == [t |-> name, v |-> NaN]
IsError(a) == a.t \in {"ZeroDivisionError", "ValueError"}
\* a real (non-complex) result that is neither NaN nor infinite
IsFinite(a) == a.t \in {"py", "np"} /\ IsFiniteV(a.v)

\* Result type of a binary operation: complex wins, then numpy, then Python.
Join(a, b) ==
    IF a.t = "cx" \/ b.t = "cx" THEN "cx"
    ELSE IF a.t = "np" \/ b.t = "np" THEN "np" ELSE "py"
Val(t, v) == [t |-> t, v |-> IF t = "cx" THEN NaN ELSE v]

\* Operands are evaluated left to right; the first exception propagates.
NegV(a) == IF IsError(a) THEN a ELSE Val(a.t, RNeg(a.v))
AddV(a, b) == IF IsError(a) THEN a ELSE IF IsError(b) THEN b
              ELSE Val(Join(a, b), RAdd(a.v, b.v))
SubV(a, b) == IF IsError(a) THEN a ELSE IF IsError(b) THEN b
              ELSE Val(Join(a, b), RSub(a.v, b.v))
MulV(a, b) == IF IsError(a) THEN a ELSE IF IsError(b) THEN b
              ELSE Val(Join(a, b), RMul(a.v, b.v))
\* Python's "/": a zero divisor raises ZeroDivisionError unless numpy does the
\* division (either operand a float64), which yields inf/-inf/NaN and a warning.
DivV(a, b) == IF IsError(a) THEN a ELSE IF IsError(b) THEN b
              ELSE IF b.t # "cx" /\ b.v = <<0, 1>> /\ Join(a, b) # "np"
                   THEN Raised("ZeroDivisionError")
                   ELSE Val(Join(a, b), RDiv(a.v, b.v))

Neg(a) == CHOOSE r \in {NegV(u) : u \in {a}} : TRUE
Add(a, b) == CHOOSE r \in {AddV(u[1], u[2]) : u \in {<<a, b>>}} : TRUE
Sub(a, b) == CHOOSE r \in {SubV(u[1], u[2]) : u \in {<<a, b>>}} : TRUE
Mul(a, b) == CHOOSE r \in {MulV(u[1], u[2]) : u \in {<<a, b>>}} : TRUE
Div(a, b) == CHOOSE r \in {DivV(u[1], u[2]) : u \in {<<a, b>>}} : TRUE

\* ------------------------------------------------------------ scipy.special.erfc
\* erfc(k/2) in thousandths for k = -4..4 (erfc(0) = 1, erfc(1/2) = 0.480, erfc(1) =
\* 0.157, erfc(3/2) = 0.034, erfc(2) = 0.005, erfc(-x) = 2 - erfc(x)).
ErfcKnot(k) ==
    LET T == <<480, 157, 34, 5>>
    IN  IF k = 0 THEN 1000 ELSE IF k > 0 THEN T[k] ELSE 2000 - T[-k]

\* erfc of an extended rational: linear interpolation between the knots, constant
\* beyond |x| >= 2; erfc(+inf) = 0, erfc(-inf) = 2, erfc(NaN) = NaN.
RErfc(a) ==
    IF a[2] = 0
    THEN (IF a = PosInf THEN <<0, 1>> ELSE IF a = NegInf THEN <<2, 1>> ELSE NaN)
    ELSE IF 2 * a[1] >= 4 * a[2] THEN Norm(ErfcKnot(4), 1000)
    ELSE IF 2 * a[1] <= -4 * a[2] THEN Norm(ErfcKnot(-4), 1000)
    ELSE LET k == (2 * a[1]) \div a[2]
             f == 2 * a[1] - k * a[2]
         IN  Norm(ErfcKnot(k) * a[2] + (ErfcKnot(k + 1) - ErfcKnot(k)) * f,
                  1000 * a[2])

\* The ufunc returns a numpy float64 whatever real number it is given.
erfcV(a) == IF IsError(a) THEN a
            ELSE IF a.t = "cx" THEN Val("cx", NaN) ELSE Val("np", RErfc(a.v))
erfc(a) == CHOOSE r \in {erfcV(u) : u \in {a}} : TRUE

\* ------------------------------------------------------------ Python's **
\* the integer square root of v (v < 1024*1024)
ISqrt(v) == CHOOSE r \in 0..1024 : r * r <= v /\ (r + 1) * (r + 1) > v
\* square root of a non-negative rational, to one decimal of sqrt(p*q)
RSqrt(a) == Norm(ISqrt(a[1] * a[2] * 100), a[2] * 10)

RECURSIVE RIPow(_, _)
RIPow(a, k) == IF k = 0 THEN <<1, 1>> ELSE RMul(a, RIPow(a, k - 1))

\* base a (finite) to the exponent e = <<ep, eq>> with eq in {1, 2}
RPow(a, e) ==
    LET root == IF e[2] = 1 THEN a ELSE RSqrt(a)
        r == RIPow(root, Abs(e[1]))
    IN  IF e[1] < 0 THEN RDiv(<<1, 1>>, r) ELSE r

PowV(a, e) ==
    IF IsError(a) THEN a ELSE IF IsError(e) THEN e
    ELSE IF Join(a, e) = "cx" THEN Val("cx", NaN)
    ELSE IF ~IsFiniteV(e.v) \/ IsNaNV(a.v) THEN Val(Join(a, e), NaN)
    ELSE IF e.v[1] = 0 THEN Val(Join(a, e), <<1, 1>>)
    ELSE IF ~IsFiniteV(a.v)
         THEN Val(Join(a, e), IF e.v[1] < 0 THEN <<0, 1>> ELSE PosInf)
    ELSE IF a.v[1] = 0 /\ e.v[1] < 0
         THEN (IF Join(a, e) = "np" THEN Val("np", PosInf)
               ELSE Raised("ZeroDivisionError"))
    ELSE IF a.v[1] < 0 /\ e.v[2] # 1
         THEN (IF Join(a, e) = "np" THEN Val("np", NaN) ELSE Val("cx", NaN))
    ELSE Val(Join(a, e), RPow(a.v, e.v))
Pow(a, e) == CHOOSE r \in {PowV(u[1], u[2]) : u \in {<<a, e>>}} : TRUE

\* ------------------------------------------------------------ the formulas
One == Py(1, 1)

erfc_argument_over_n(i, ik, n) == Div(Sub(Div(i, ik), One), n)
erfc_argument_no_offset(i, ik, n) == Div(Div(i, ik), Div(One, n))
erfc_argument_inverted(i, ik, n) == Div(Sub(Div(ik, i), One), Div(One, n))
\* the argument handed to the second erfc: ((i/ik) - 1)/(1/n)
erfc_argument(i, ik, n) == Div(Sub(Div(i, ik), One), Div(One, n))

\* C = (Cm/erfc(-n)) * erfc(((i/ik) - 1)/(1/n))
calculo_capacidade(Cm, i, ik, n) ==
    Mul(Div(Cm, erfc(Neg(n))), erfc(erfc_argument(i, ik, n)))

\* the estimator's inner model, params = <<Cm, n, ik>>, at one element of i
modelo(params, i) ==
    Mul(Div(params[1], erfc(Neg(params[2]))),
        erfc(Div(Sub(Div(i, params[3]), One), Div(One, params[2]))))

residuals_reversed(params, i, C_observado) ==
    [k \in 1..Len(i) |-> Sub(C_observado[k], modelo(params, i[k]))]
\* residuals: C_estimado - C_observado, elementwise over the arrays
residuals(params, i, C_observado) ==
    [k \in 1..Len(i) |-> Sub(modelo(params, i[k]), C_observado[k])]

peukert_rate_not_inverted(n, R, i, C) == Div(Mul(R, Pow(Div(C, R), n)), Pow(i, n))
\* R = 1/R ; t = (R*(C/R)**n) / (i**n)
peukert(n, R, i, C) ==
    LET R1 == Div(One, R)
    IN  Div(Mul(R1, Pow(Div(C, R1), n)), Pow(i, n))

\* ------------------------------------------------------------ fixed data
\* Currents are written in units of 2.5*Cm_parametro = 153.2125 A and capacities in
\* units of Cm_parametro = 61.285 Ah, so that the arrays are small rationals.
\* i = np.array([10, 7.5, 5])*Cm_parametro
Currents == <<Np(4, 1), Np(3, 1), Np(2, 1)>>
\* C_observado = np.array([15.054..., 25.819..., 38.592...]), to the nearest 1/40
Capacities == <<Np(1, 4), Np(2, 5), Np(5, 8)>>
\* params_iniciais = np.array([100, 0.5, 300]) = <<Cm, n, ik>>
params_iniciais == <<Np(3, 2), Np(1, 2), Np(2, 1)>>
\* i_descarga = 5*61.285
i_descarga == Py(2, 1)

\* ------------------------------------------------------------ inputs of a run
Types == {"py", "np"}
Ints == -1..MaxIn
\* exponents: the integers and 1/2
Exps == {<<k, 1>> : k \in Ints} \cup {<<1, 2>>}
\* arrays a caller may hand to encontrar_parametros
ObsArrays == {Currents, Capacities}
             \cup {[k \in 1..len |-> Np(k, 1)] : len \in 2..(MaxIn + 1)}
\* points at which the solver may evaluate the residuals
ParamGrid == {<<Cm, n, ik>> : Cm \in {Np(1, 1), Np(3, 2)},
                              n \in {Np(0, 1), Np(1, 2), Np(1, 1)},
                              ik \in {Np(0, 1), Np(2, 1)}}

None == [t |-> "None", v |-> NaN]
NoInput == [none |-> TRUE]
NoResult == [x |-> <<>>, cost |-> None, status |-> -9, success |-> FALSE, nfev |-> 0]
NoMain == [Cm |-> None, n |-> None, ik |-> None,
           capacidade_A |-> None, duracao_h |-> None]

\* ------------------------------------------------------------ Otimização Servo 2.0.py
\* gravidade_ms2 = 9.80665, as 49/5
gravidade_ms2 == Py(49, 5)
\* np.pi, as 22/7
np_pi == Py(22, 7)
\* np.sin(np.pi/2)
sin_half_pi == Np(1, 1)
\* conversao_onin2_kgcm2 = 0.00001828997852042, as 1/54675
conversao_onin2_kgcm2 == Py(1, 54675)
\* conversao_ozin_Nm = 0.0070615518333333, as 7/990
conversao_ozin_Nm == Py(7, 990)
\* fator_conversao_Nm_kg_cm = 10.197162129779, as 51/5
fator_conversao_Nm_kg_cm == Py(51, 5)

\* np.sum of an array
RECURSIVE np_sum(_)
np_sum(a) ==
    IF a = <<>> THEN Np(0, 1)
    ELSE CHOOSE r \in {Add(u[1], u[2]) : u \in {<<a[1], np_sum(Tail(a))>>}} : TRUE

\* numpy's broadcast of a scalar against an array of the given length
Broadcast(scalar, len) == [k \in 1..len |-> scalar]

\* massa_kg*gravidade_ms2 * distancia_centro_massa_m * np.sin(np.pi/2)
torque_carga_max(massa_kg, distancia_centro_massa_m) ==
    Mul(Mul(Mul(massa_kg, gravidade_ms2), distancia_centro_massa_m), sin_half_pi)

\* np.sum((1/2)*gravidade_ms2*massa_kg*distancias_m)
torque_links_max(massa_kg, distancias_m) ==
    np_sum([k \in 1..Len(massa_kg) |->
               Mul(Mul(Mul(Div(One, Py(2, 1)), gravidade_ms2), massa_kg[k]),
                   distancias_m[k])])

\* np.sum([massa_kg*gravidade_ms2*distancias_m[:(len(massa_kg))]])
torque_max_pontos_rotacao(massa_kg, distancias_m) ==
    np_sum([k \in 1..Len(massa_kg) |->
               Mul(Mul(massa_kg[k], gravidade_ms2), distancias_m[k])])

torque_resultante(massa_superficie_kg, distancia_centro_massa_m, massa_links_kg, distancias_links_m, massa_pontos_rotacao_kg) ==
    np_sum(<<torque_carga_max(massa_superficie_kg, distancia_centro_massa_m),
             torque_links_max(massa_links_kg, distancias_links_m),
             torque_max_pontos_rotacao(massa_pontos_rotacao_kg, distancias_links_m)>>)

\* 1/2*massa_conexao_motor_kg*gravidade_ms2*raio_conexao_motor_m**2
momento_servomotor(raio_conexao_motor_m, massa_conexao_motor_kg) ==
    Mul(Mul(Mul(Div(One, Py(2, 1)), massa_conexao_motor_kg), gravidade_ms2),
        Pow(raio_conexao_motor_m, Py(2, 1)))

\* np.sum((1/3)*(massa_kg)*(distancias_m**2))
momento_links(massa_kg, distancias_m) ==
    np_sum([k \in 1..Len(massa_kg) |->
               Mul(Mul(Div(One, Py(3, 1)), massa_kg[k]),
                   Pow(distancias_m[k], Py(2, 1)))])

\* (massa_kg/3)*((lado_a_m**2)+(lado_b_m**2))
momento_superficie(massa_kg, lado_a_m, lado_b_m) ==
    Mul(Div(massa_kg, Py(3, 1)),
        Add(Pow(lado_a_m, Py(2, 1)), Pow(lado_b_m, Py(2, 1))))

momento_resultante(massa_superficie_kg, lado_a_m, lado_b_m, massa_links_kg, distancia_links_kg, raio_conexao_motor_m, massa_conexao_motor_kg) ==
    Add(Add(momento_superficie(massa_superficie_kg, lado_a_m, lado_b_m),
            momento_links(massa_links_kg, distancia_links_kg)),
        momento_servomotor(raio_conexao_motor_m, massa_conexao_motor_kg))

\* Lines 243-250, the local "momento": momento_resultante is called with
\* raio_conexao_motor_m in the position of distancia_links_kg as well as in its own,
\* and numpy broadcasts that scalar over the link masses.
momento_local(massa_superficie_kg, lado_a_m, lado_b_m, massa_links_kg, raio_conexao_motor_m, massa_conexao_motor_kg) ==
    momento_resultante(massa_superficie_kg, lado_a_m, lado_b_m, massa_links_kg,
                       Broadcast(raio_conexao_motor_m, Len(massa_links_kg)),
                       raio_conexao_motor_m, massa_conexao_motor_kg)

\* Lines 252-256: conversao_ozin_Nm*((momento/conversao_onin2_kgcm2) * (np.pi*0.72*1)
\*                * ((1/(velocidade*6))**2)/(90*3.6) * 1/(12*32))
momento_para_torque(momento, velocidade_servo_60_graus_por_seg) ==
    Mul(conversao_ozin_Nm,
        Div(Mul(Div(Mul(Mul(Div(momento, conversao_onin2_kgcm2),
                            Mul(Mul(np_pi, Py(18, 25)), Py(1, 1))),
                        Pow(Div(One, Mul(velocidade_servo_60_graus_por_seg, Py(6, 1))),
                            Py(2, 1))),
                    Mul(Py(90, 1), Py(18, 5))),
                Py(1, 1)),
            Mul(Py(12, 1), Py(32, 1))))

torque_resultante_momento(massa_superficie_kg, lado_a_m, lado_b_m, massa_links_kg, raio_conexao_motor_m, massa_conexao_motor_kg, velocidade_servo_60_graus_por_seg) ==
    momento_para_torque(momento_local(massa_superficie_kg, lado_a_m, lado_b_m,
                                      massa_links_kg, raio_conexao_motor_m,
                                      massa_conexao_motor_kg),
                        velocidade_servo_60_graus_por_seg)

torque_total_kg_cm(massa_superficie_kg, distancia_centro_massa_m, massa_links_kg, distancias_links_m, massa_pontos_rotacao_kg, lado_a_m, lado_b_m, raio_conexao_motor_m, massa_conexao_motor_kg, velocidade_servo_60_graus_por_seg) ==
    Mul(Add(torque_resultante(massa_superficie_kg, distancia_centro_massa_m,
                              massa_links_kg, distancias_links_m,
                              massa_pontos_rotacao_kg),
            torque_resultante_momento(massa_superficie_kg, lado_a_m, lado_b_m,
                                      massa_links_kg, raio_conexao_motor_m,
                                      massa_conexao_motor_kg,
                                      velocidade_servo_60_graus_por_seg)),
        fator_conversao_Nm_kg_cm)

\* inputs of the torque calls: lengths and masses 1..MaxIn in model units, two links
Lengths == 1..MaxIn
LinkArrays == {<<Np(a, 1), Np(b, 1)>> : a \in Lengths, b \in Lengths}


VARIABLES
    entry,              \* the operation this run calls: capacity, peukert, estimator, main
    pc,                 \* position of the caller / of main
    input,              \* the arguments of a direct call
    cap,                \* the last calculo_capacidade call: arguments, erfc argument, result
    peu,                \* the last peukert call: arguments and result
    arg_C_observado,    \* the caller's array passed as C_observado
    arg_i,              \* the caller's array passed as i
    est_C_observado,    \* encontrar_parametros' local C_observado
    est_i,              \* encontrar_parametros' local i
    epc,                \* position inside encontrar_parametros
    x,                  \* the solver's current iterate <<Cm, n, ik>>
    nfev,               \* residual evaluations so far
    status,             \* the solver's termination status
    iterates,           \* history: the iterates accepted so far
    nonfinite,          \* history: some evaluation returned a non-finite residual
    tol_met,            \* history: the solver stopped on one of its tolerances
    resultado,          \* what encontrar_parametros returned
    mainv,              \* main's locals
    calls,              \* history: the calls main made, in order
    servo               \* the last torque_total_kg_cm call: arguments, moments, result

vars == <<entry, pc, input, cap, peu, arg_C_observado, arg_i, est_C_observado, est_i,
          epc, x, nfev, status, iterates, nonfinite, tol_met, resultado, mainv, calls,
          servo>>

estvars == <<arg_C_observado, arg_i, est_C_observado, est_i, epc, x, nfev, status,
             iterates, nonfinite, tol_met, resultado>>

\* ------------------------------------------------------------ the solver
AllFinite(f) == \A k \in 1..Len(f) : IsFinite(f[k])

\* a finite residual in hundredths, rounded down
HundredthsV(r) ==
    LET w == r.v[1] \div r.v[2]
        f == r.v[1] - w * r.v[2]
    IN  w * 100 + (IF r.v[2] < 10000000 THEN (f * 100) \div r.v[2]
                   ELSE f \div (r.v[2] \div 100))
Hundredths(a) == CHOOSE r \in {HundredthsV(u) : u \in {a}} : TRUE

RECURSIVE SumSq(_, _)
SumSq(f, k) ==
    IF k = 0 THEN 0
    ELSE CHOOSE r \in {u[1] * u[1] + u[2] :
                        u \in {<<Hundredths(f[k]), SumSq(f, k - 1)>>}} : TRUE
\* twice the cost 0.5*sum(f**2), in units of 1/10000
Cost2(f) == SumSq(f, Len(f))

\* the residual vector the solver sees at params: fun(params, *args)
Fun(params) == residuals(params, est_i, est_C_observado)

\* OptimizeResult.success is status > 0
Success(st) == st > 0

\* the object line 57 returns: the OptimizeResult of least_squares
ReturnedResultBroken(xx, st, nf) ==
    [x |-> xx, cost |-> Np(Cost2(Fun(xx)), 20000), status |-> st,
     success |-> TRUE, nfev |-> nf]
ReturnedResult(xx, st, nf) ==
    [x |-> xx, cost |-> Np(Cost2(Fun(xx)), 20000), status |-> st,
     success |-> Success(st), nfev |-> nf]

\* ------------------------------------------------------------ call records
Num(tp, r) == [t |-> tp, v |-> Norm(r[1], r[2])]

NoCap == [Cm |-> None, i |-> None, ik |-> None, n |-> None, arg |-> None, C |-> None]
NoPeu == [n |-> None, R |-> None, i |-> None, C |-> None, t |-> None]

\* a call of calculo_capacidade: its arguments, what it hands to erfc, what it returns
CapCall(Cm, i, ik, n) ==
    [Cm |-> Cm, i |-> i, ik |-> ik, n |-> n,
     arg |-> erfc_argument(i, ik, n), C |-> calculo_capacidade(Cm, i, ik, n)]

\* a call of peukert: its arguments and what it returns
PeuCall(n, R, i, C) ==
    [n |-> n, R |-> R, i |-> i, C |-> C, t |-> peukert(n, R, i, C)]

\* ------------------------------------------------------------ initial states
NoServo == [massa_links_kg |-> <<>>, distancias_links_m |-> <<>>,
            lado_a_m |-> None, lado_b_m |-> None,
            raio_conexao_motor_m |-> None, massa_conexao_motor_kg |-> None,
            massa_superficie_kg |-> None, distancia_centro_massa_m |-> None,
            massa_pontos_rotacao_kg |-> <<>>,
            velocidade_servo_60_graus_por_seg |-> None,
            momento |-> None, torque_momento |-> None, torque_total |-> None]

\* What a call torque_total_kg_cm(ms, dcm, ml, dl, mp, a, b, raio, mc, vel) computes:
\* the arguments, the local "momento" of torque_resultante_momento, that function's
\* result and the total.
ServoCall(ms, dcm, ml, dl, mp, a, b, raio, mc, vel) ==
    [massa_links_kg |-> ml, distancias_links_m |-> dl,
     lado_a_m |-> a, lado_b_m |-> b,
     raio_conexao_motor_m |-> raio, massa_conexao_motor_kg |-> mc,
     massa_superficie_kg |-> ms, distancia_centro_massa_m |-> dcm,
     massa_pontos_rotacao_kg |-> mp,
     velocidade_servo_60_graus_por_seg |-> vel,
     momento |-> momento_local(ms, a, b, ml, raio, mc),
     torque_momento |-> torque_resultante_momento(ms, a, b, ml, raio, mc, vel),
     torque_total |-> torque_total_kg_cm(ms, dcm, ml, dl, mp, a, b, raio, mc, vel)]

Init ==
    /\ entry \in {"capacity", "peukert", "estimator", "main", "servo"}
    /\ pc = "start"
    /\ input \in
         IF entry = "capacity"
         THEN [tp : Types, Cm : Ints, i : Ints, ik : Ints, n : Exps]
         ELSE IF entry = "peukert"
         THEN [tp : Types, n : Exps, R : Ints, i : Ints, C : Ints]
         ELSE IF entry = "estimator"
         THEN [C_observado : ObsArrays, i : ObsArrays]
         ELSE IF entry = "servo"
         THEN [massa_links_kg : LinkArrays, distancias_links_m : LinkArrays,
               lado_b_m : Lengths, raio_conexao_motor_m : Lengths]
         ELSE {NoInput}
    /\ cap = NoCap
    /\ peu = NoPeu
    /\ arg_C_observado = <<>>
    /\ arg_i = <<>>
    /\ est_C_observado = <<>>
    /\ est_i = <<>>
    /\ epc = "idle"
    /\ x = <<>>
    /\ nfev = 0
    /\ status = -9
    /\ iterates = <<>>
    /\ nonfinite = FALSE
    /\ tol_met = FALSE
    /\ resultado = NoResult
    /\ mainv = NoMain
    /\ calls = <<>>
    /\ servo = NoServo

\* ------------------------------------------------------------ direct calls
call_calculo_capacidade ==
    /\ entry = "capacity" /\ pc = "start"
    /\ cap' = CapCall(Num(input.tp, <<input.Cm, 1>>), Num(input.tp, <<input.i, 1>>),
                      Num(input.tp, <<input.ik, 1>>), Num(input.tp, input.n))
    /\ pc' = IF IsError(cap'.C) THEN "raised" ELSE "done"
    /\ UNCHANGED <<servo, entry, input, peu, estvars, mainv, calls>>

call_peukert ==
    /\ entry = "peukert" /\ pc = "start"
    /\ peu' = PeuCall(Num(input.tp, input.n), Num(input.tp, <<input.R, 1>>),
                      Num(input.tp, <<input.i, 1>>), Num(input.tp, <<input.C, 1>>))
    /\ pc' = IF IsError(peu'.t) THEN "raised" ELSE "done"
    /\ UNCHANGED <<servo, entry, input, cap, estvars, mainv, calls>>

\* ------------------------------------------------------------ encontrar_parametros
\* the local i after line 42 and the local C_observado after line 43
LocalI(argI) == Currents
LocalC(argC) == Capacities

CallerArrayOverwritten(arg, local) == local
\* Lines 42-43 are assignments to the parameter NAMES: each binds the name to a new
\* array and leaves the array object the caller passed as it was.
CallerArray(arg, local) == arg

\* Lines 15-49, up to the solver's first evaluation: the parameters are bound, the
\* locals are assigned, and least_squares evaluates the residuals at params_iniciais
\* (ValueError when there are fewer residuals than parameters or f0 is not finite).
EstEnter(argC, argI) ==
    /\ epc = "idle"
    /\ est_i' = LocalI(argI)
    /\ est_C_observado' = LocalC(argC)
    /\ arg_C_observado' = CallerArray(argC, est_C_observado')
    /\ arg_i' = CallerArray(argI, est_i')
    /\ x' = params_iniciais
    /\ LET f0 == residuals(params_iniciais, est_i', est_C_observado')
           ok == /\ Len(est_i') = Len(est_C_observado')
                 /\ Len(est_i') >= Len(params_iniciais)
                 /\ AllFinite(f0)
       IN  /\ epc' = IF ok THEN "lm" ELSE "raised"
           /\ nfev' = IF ok THEN 1 ELSE 0
           /\ iterates' = IF ok THEN <<params_iniciais>> ELSE <<>>
           /\ nonfinite' = (Len(est_i') = Len(est_C_observado') /\ ~AllFinite(f0))
    /\ UNCHANGED <<status, tol_met, resultado>>

call_encontrar_parametros ==
    /\ entry = "estimator" /\ pc = "start"
    /\ EstEnter(input.C_observado, input.i)
    /\ pc' = IF epc' = "raised" THEN "raised" ELSE "called"
    /\ UNCHANGED <<servo, entry, input, cap, peu, mainv, calls>>

NextNfevStuck(k) == k
NextNfev(k) == k + 1

\* One more evaluation of the residuals by the solver, at a point of its choosing
\* (a trial step or a finite-difference point).  A trial step is taken only when the
\* residuals are finite and the cost went down; nothing else is checked.
lm_trial(xt, accept) ==
    /\ epc = "lm" /\ nfev < MaxNfev
    /\ nfev' = NextNfev(nfev)
    /\ \E f \in {Fun(xt)} :
           /\ nonfinite' = (nonfinite \/ ~AllFinite(f))
           /\ IF accept /\ AllFinite(f) /\ Cost2(f) < Cost2(Fun(x))
              THEN x' = xt /\ iterates' = Append(iterates, xt)
              ELSE UNCHANGED <<x, iterates>>
    /\ UNCHANGED <<servo, entry, pc, input, cap, peu, arg_C_observado, arg_i, est_C_observado,
                   est_i, epc, status, tol_met, resultado, mainv, calls>>

\* ftol (2), xtol (3), both (4) or gtol (1) is satisfied
lm_converge(st) ==
    /\ epc = "lm"
    /\ status' = st
    /\ tol_met' = TRUE
    /\ epc' = "finished"
    /\ UNCHANGED <<servo, entry, pc, input, cap, peu, arg_C_observado, arg_i, est_C_observado,
                   est_i, x, nfev, iterates, nonfinite, resultado, mainv, calls>>

\* the evaluation budget is used up: status 0
lm_maxfev ==
    /\ epc = "lm" /\ nfev >= MaxNfev
    /\ status' = 0
    /\ epc' = "finished"
    /\ UNCHANGED <<servo, entry, pc, input, cap, peu, arg_C_observado, arg_i, est_C_observado,
                   est_i, x, nfev, iterates, nonfinite, tol_met, resultado, mainv, calls>>

\* Lines 51-57: print the parameters and the cost, return resultado.
encontrar_parametros_return ==
    /\ epc = "finished"
    /\ resultado' = ReturnedResult(x, status, nfev)
    /\ epc' = "returned"
    /\ pc' = IF entry = "main" THEN pc ELSE "done"
    /\ UNCHANGED <<servo, entry, input, cap, peu, arg_C_observado, arg_i, est_C_observado,
                   est_i, x, nfev, status, iterates, nonfinite, tol_met, mainv, calls>>

\* ------------------------------------------------------------ main
\* the two arrays main passes at line 150, first C_observado then i
MainArgs == <<Currents, Currents>>

\* Cm, n, ik = encontrar_parametros(...).x
Unpack(res) == [Cm |-> res.x[1], n |-> res.x[2], ik |-> res.x[3]]

\* the arguments of calculo_capacidade(Cm, i_descarga, ik, n) at line 151
MainCapArgs(m) == <<m.Cm, i_descarga, m.ik, m.n>>
\* the arguments of peukert(n, 100, 80, 6) at line 152
MainPeuArgs(m) == <<m.n, Py(100, 1), Py(80, 1), Py(6, 1)>>

main_call_encontrar_parametros ==
    /\ entry = "main" /\ pc = "start"
    /\ EstEnter(MainArgs[1], MainArgs[2])
    /\ calls' = Append(calls, [fn |-> "encontrar_parametros", args |-> MainArgs])
    /\ pc' = IF epc' = "raised" THEN "raised" ELSE "main_150"
    /\ UNCHANGED <<servo, entry, input, cap, peu, mainv>>

main_unpack ==
    /\ entry = "main" /\ pc = "main_150" /\ epc = "returned"
    /\ mainv' = [mainv EXCEPT !.Cm = Unpack(resultado).Cm, !.n = Unpack(resultado).n,
                              !.ik = Unpack(resultado).ik]
    /\ pc' = "main_151"
    /\ UNCHANGED <<servo, entry, input, cap, peu, estvars, calls>>

main_calculo_capacidade ==
    /\ entry = "main" /\ pc = "main_151"
    /\ LET a == MainCapArgs(mainv)
       IN  /\ cap' = CapCall(a[1], a[2], a[3], a[4])
           /\ calls' = Append(calls, [fn |-> "calculo_capacidade", args |-> a])
    /\ mainv' = [mainv EXCEPT !.capacidade_A = cap'.C]
    /\ pc' = IF IsError(cap'.C) THEN "raised" ELSE "main_152"
    /\ UNCHANGED <<servo, entry, input, peu, estvars>>

main_peukert ==
    /\ entry = "main" /\ pc = "main_152"
    /\ LET a == MainPeuArgs(mainv)
       IN  /\ peu' = PeuCall(a[1], a[2], a[3], a[4])
           /\ calls' = Append(calls, [fn |-> "peukert", args |-> a])
    /\ mainv' = [mainv EXCEPT !.duracao_h = peu'.t]
    /\ pc' = IF IsError(peu'.t) THEN "raised" ELSE "main_154"
    /\ UNCHANGED <<servo, entry, input, cap, estvars>>

\* Lines 154-157: print the two results and draw the chart.
main_print_plotar ==
    /\ entry = "main" /\ pc = "main_154"
    /\ calls' = Append(calls, [fn |-> "plotar", args |-> <<>>])
    /\ pc' = "done"
    /\ UNCHANGED <<servo, entry, input, cap, peu, estvars, mainv>>

\* ------------------------------------------------------------ specifications
\* A call of torque_total_kg_cm with unit surface mass, centre-of-mass distance,
\* side a and ring mass, one rotation point of unit mass and a servo speed of 1/8.
call_torque_total_kg_cm ==
    /\ entry = "servo" /\ pc = "start"
    /\ servo' = ServoCall(Py(1, 1), Py(1, 1), input.massa_links_kg,
                          input.distancias_links_m, <<Np(1, 1)>>, Py(1, 1),
                          Py(input.lado_b_m, 1), Py(input.raio_conexao_motor_m, 1),
                          Py(1, 1), Py(1, 8))
    /\ pc' = IF IsError(servo'.torque_total) THEN "raised" ELSE "done"
    /\ UNCHANGED <<entry, input, cap, peu, estvars, mainv, calls>>

Evaluate == \E xt \in ParamGrid, accept \in BOOLEAN : lm_trial(xt, accept)
Converge == \E st \in 1..4 : lm_converge(st)

\* every step except the solver meeting a tolerance, which nothing guarantees
Progress ==
    \/ call_calculo_capacidade
    \/ call_torque_total_kg_cm
    \/ call_peukert
    \/ call_encontrar_parametros
    \/ Evaluate
    \/ lm_maxfev
    \/ encontrar_parametros_return
    \/ main_call_encontrar_parametros
    \/ main_unpack
    \/ main_calculo_capacidade
    \/ main_peukert
    \/ main_print_plotar

Next ==
    \/ call_calculo_capacidade
    \/ call_torque_total_kg_cm
    \/ call_peukert
    \/ call_encontrar_parametros
    \/ Evaluate
    \/ Converge
    \/ lm_maxfev
    \/ encontrar_parametros_return
    \/ main_call_encontrar_parametros
    \/ main_unpack
    \/ main_calculo_capacidade
    \/ main_peukert
    \/ main_print_plotar

Spec == Init /\ [][Next]_vars

\* A Python process keeps executing: a step that can be taken is taken.
LiveSpec == Init /\ [][Next]_vars /\ WF_vars(Progress)

\* ------------------------------------------------------------ claims
\* the valid domain of capacity: Cm > 0, ik > 0, n > 0, i >= 0
CapDomain(c) ==
    /\ IsFinite(c.Cm) /\ c.Cm.v[1] > 0
    /\ IsFinite(c.ik) /\ c.ik.v[1] > 0
    /\ IsFinite(c.n) /\ c.n.v[1] > 0
    /\ IsFinite(c.i) /\ c.i.v[1] >= 0
CapDone == entry = "capacity" /\ pc \in {"done", "raised"}
PeuDone == entry = "peukert" /\ pc \in {"done", "raised"}
EstRunning == epc \in {"lm", "finished", "returned"}

\* ((i/ik) - 1) * n and ((i/ik) - 1) / n as plain rationals
ArgTimesN(i, ik, n) == RMul(RSub(RDiv(i, ik), <<1, 1>>), n)
ArgOverN(i, ik, n) == RDiv(RSub(RDiv(i, ik), <<1, 1>>), n)
\* (Cm / erfc(-n)) * erfc(a)
ScaledErfc(Cm, n, a) == RMul(RDiv(Cm, RErfc(RNeg(n))), RErfc(a))

\* C1 as stated: on its domain capacity hands erfc the argument ((i/ik) - 1) / n and
\* returns (Cm / erfc(-n)) * erfc(((i/ik) - 1) / n).
C1_ArgumentOverN ==
    (CapDone /\ CapDomain(cap)) =>
        /\ cap.arg.v = ArgOverN(cap.i.v, cap.ik.v, cap.n.v)
        /\ cap.C.v = ScaledErfc(cap.Cm.v, cap.n.v, ArgOverN(cap.i.v, cap.ik.v, cap.n.v))

\* C1 amended: on its domain capacity hands erfc the argument ((i/ik) - 1) * n (the
\* quotient by 1/n) and returns (Cm / erfc(-n)) * erfc(((i/ik) - 1) * n); the model
\* inside the estimator computes the same at every observation current.
C1_ArgumentTimesN ==
    /\ (CapDone /\ CapDomain(cap)) =>
          /\ IsFinite(cap.C)
          /\ cap.arg.v = ArgTimesN(cap.i.v, cap.ik.v, cap.n.v)
          /\ cap.C.v = ScaledErfc(cap.Cm.v, cap.n.v,
                                  ArgTimesN(cap.i.v, cap.ik.v, cap.n.v))
    /\ (EstRunning /\ x[2].v[1] > 0 /\ x[3].v[1] > 0) =>
          \A k \in 1..Len(est_i) :
              modelo(x, est_i[k]).v =
                  ScaledErfc(x[1].v, x[2].v, ArgTimesN(est_i[k].v, x[3].v, x[2].v))

\* C1 witness: a call on the domain where multiplying and dividing by n differ
C1_Witness ==
    /\ CapDone /\ CapDomain(cap)
    /\ cap.n.v = <<2, 1>> /\ cap.i.v = <<2, 1>> /\ cap.ik.v = <<1, 1>>
    /\ cap.arg.v = <<2, 1>>

\* C2 as stated: the arrays the solver minimises over are the arrays the caller
\* passed to encontrar_parametros.
C2_FitsCallersData ==
    EstRunning => (est_i = arg_i /\ est_C_observado = arg_C_observado)

\* C3 as stated: capacity called with ik = 0 raises; it returns no value.
C3_IkZeroRaises ==
    (CapDone /\ cap.ik.v = <<0, 1>>) => (pc = "raised" /\ IsError(cap.C))

\* C4 as stated: peukert called with i = 0 raises, whatever n, C_rating and C are.
C4_IZeroRaises ==
    (PeuDone /\ peu.i.v = <<0, 1>>) => (pc = "raised" /\ IsError(peu.t))

\* C5 as stated: a call with Cm <= 0 or ik <= 0 (capacity) or with C_rating <= 0,
\* i <= 0 or C <= 0 (peukert) raises and returns no number.
C5_NonPositiveRaises ==
    /\ (CapDone /\ (cap.Cm.v[1] <= 0 \/ cap.ik.v[1] <= 0)) =>
          (pc = "raised" /\ IsError(cap.C))
    /\ (PeuDone /\ (peu.R.v[1] <= 0 \/ peu.i.v[1] <= 0 \/ peu.C.v[1] <= 0)) =>
          (pc = "raised" /\ IsError(peu.t))

\* C6 as stated: arrays of different lengths are rejected before the residuals are
\* evaluated even once.
C6_ShapeMismatchRejected ==
    (epc # "idle" /\ Len(arg_i) # Len(arg_C_observado)) =>
        (epc = "raised" /\ nfev = 0)

C8_NonConvergenceReported ==
    epc = "returned" =>
        /\ ~tol_met => (/\ resultado.status = 0
                        /\ ~resultado.success
                        /\ resultado.nfev >= MaxNfev)
        /\ resultado.success => (tol_met /\ resultado.status \in 1..4)
        /\ resultado.x = iterates[Len(iterates)]
        /\ \A k \in 1..Len(iterates) :
               Cost2(Fun(resultado.x)) <= Cost2(Fun(iterates[k]))

\* C8 witness: a run that used up its budget after moving away from the initial guess
C8_Witness ==
    /\ epc = "returned" /\ ~tol_met /\ resultado.status = 0
    /\ Len(iterates) >= 2 /\ resultado.x # params_iniciais

\* C9: every run of the estimator ends, by returning or by raising.
C9_EstimatorTerminates ==
    [](entry \in {"estimator", "main"} => <>(epc \in {"returned", "raised"}))

\* C9 witness: a run that ended on the evaluation cap
C9_Witness ==
    /\ entry = "estimator" /\ epc = "returned" /\ pc = "done"
    /\ resultado.nfev = MaxNfev /\ resultado.status = 0

\* C10 as stated: main calls the estimator, then capacity, then the runtime estimator;
\* the estimator gets the observed capacities and their currents; capacity gets the
\* fitted Cm, ik and n in their positions; the runtime estimator gets the fitted n.
C10_MainSequencesAndThreads ==
    (entry = "main" /\ pc = "done") =>
        /\ Len(calls) >= 3
        /\ calls[1].fn = "encontrar_parametros"
        /\ calls[2].fn = "calculo_capacidade"
        /\ calls[3].fn = "peukert"
        /\ calls[1].args = <<Capacities, Currents>>
        /\ calls[2].args = <<resultado.x[1], i_descarga, resultado.x[3], resultado.x[2]>>
        /\ calls[3].args[1] = resultado.x[2]

\* C11: the residual vector at the solver's iterate has one entry per current, and
\* entry k is calculo_capacidade(Cm, i[k], ik, n) - C_observado[k]; the estimator's
\* inner model returns what calculo_capacidade returns on every call made.
C11_ResidualsElementwise ==
    /\ EstRunning =>
          /\ DOMAIN residuals(x, est_i, est_C_observado) = 1..Len(est_i)
          /\ \A k \in 1..Len(est_i) :
                residuals(x, est_i, est_C_observado)[k] =
                    Sub(calculo_capacidade(x[1], est_i[k], x[3], x[2]),
                        est_C_observado[k])
    /\ CapDone => modelo(<<cap.Cm, cap.n, cap.ik>>, cap.i) = cap.C

\* C11 witness: the solver has moved to an iterate where all three residuals are
\* non-zero and differ from each other
C11_Witness ==
    /\ EstRunning /\ Len(iterates) >= 2 /\ Len(est_i) = 3
    /\ \A k \in 1..3 : IsFinite(Fun(x)[k]) /\ Fun(x)[k].v[1] # 0
    /\ Fun(x)[1] # Fun(x)[2]

\* the valid domain of peukert: C_rating > 0, i > 0, C > 0
PeuDomain(c) ==
    /\ IsFinite(c.R) /\ c.R.v[1] > 0
    /\ IsFinite(c.i) /\ c.i.v[1] > 0
    /\ IsFinite(c.C) /\ c.C.v[1] > 0

\* C12: on its domain peukert returns a finite t >= 0 with
\* t * i^n = R * (C/R)^n for R = 1/C_rating, that is (1/C_rating) * (C*C_rating)^n;
\* main's call (C_rating = 100, i = 80, C = 6), where C/(R*i) = 7.5 > 1 makes t grow
\* with n, returns a value consistent with 0.037333 at n = 0.653: below it at n = 1/2
\* and above it at n = 1.
C12_PeukertFormula ==
    /\ (PeuDone /\ PeuDomain(peu)) =>
          /\ IsFinite(peu.t)
          /\ peu.t.v[1] >= 0
          /\ RMul(peu.t.v, RPow(peu.i.v, peu.n.v)) =
                 RMul(RDiv(<<1, 1>>, peu.R.v), RPow(RMul(peu.C.v, peu.R.v), peu.n.v))
    /\ (entry = "main" /\ pc \in {"main_154", "done"}) =>
          /\ peu.n.v = <<1, 2>> => RLess(peu.t.v, <<37333, 1000000>>)
          /\ peu.n.v = <<1, 1>> => RLess(<<37333, 1000000>>, peu.t.v)

\* C12 witness: a call on the domain whose rate, current and exponent all matter
C12_Witness ==
    /\ PeuDone /\ PeuDomain(peu)
    /\ peu.R.v = <<2, 1>> /\ peu.i.v = <<2, 1>> /\ peu.C.v = <<1, 1>>
    /\ peu.n.v = <<2, 1>> /\ peu.t.v = <<1, 2>>

\* C13: on the domain, capacity at i = ik hands erfc the argument 0 and returns
\* exactly Cm / erfc(-n).
C13_ReferencePoint ==
    (CapDone /\ CapDomain(cap) /\ cap.i.v = cap.ik.v) =>
        /\ cap.arg.v = <<0, 1>>
        /\ RErfc(cap.arg.v) = <<1, 1>>
        /\ cap.C.v = RDiv(cap.Cm.v, RErfc(RNeg(cap.n.v)))

\* C13 witness: a call at i = ik with n and Cm different from 1
C13_Witness ==
    /\ CapDone /\ CapDomain(cap)
    /\ cap.i.v = <<2, 1>> /\ cap.ik.v = <<2, 1>>
    /\ cap.n.v = <<1, 2>> /\ cap.Cm.v = <<2, 1>>

\* C14: on the domain, the capacity returned at current i is not below the capacity
\* at any larger current i2, the other arguments being the same.
C14_NonIncreasingInCurrent ==
    (CapDone /\ CapDomain(cap)) =>
        /\ IsFinite(cap.C)
        /\ \A i2 \in Ints :
              (i2 >= 0 /\ ~RLess(<<i2, 1>>, cap.i.v)) =>
                  LET C2 == calculo_capacidade(cap.Cm, Num(cap.i.t, <<i2, 1>>),
                                               cap.ik, cap.n)
                  IN  IsFinite(C2) /\ ~RLess(cap.C.v, C2.v)

\* C14 witness: a call on the domain where a larger current gives a strictly smaller
\* capacity
C14_Witness ==
    /\ CapDone /\ CapDomain(cap)
    /\ cap.i.v = <<0, 1>> /\ cap.ik.v = <<1, 1>> /\ cap.n.v = <<1, 1>>
    /\ RLess(calculo_capacidade(cap.Cm, Num(cap.i.t, <<1, 1>>), cap.ik, cap.n).v,
             cap.C.v)

\* C16: from the call of encontrar_parametros on, through every solver step and
\* after the return or a raise, the arrays the caller passed hold the same elements
\* in the same order as before the call.
C16_CallerArraysUnchanged ==
    /\ (entry = "estimator" /\ pc # "start") =>
          /\ arg_C_observado = input.C_observado
          /\ arg_i = input.i
    /\ (entry = "main" /\ pc # "start") =>
          /\ arg_C_observado = MainArgs[1]
          /\ arg_i = MainArgs[2]

\* C16 witness: a run that returned after the solver moved, on caller arrays that
\* differ from each other and from the arrays the function works on
C16_Witness ==
    /\ entry = "estimator" /\ epc = "returned" /\ Len(iterates) >= 2
    /\ input.i # est_i /\ input.C_observado # est_C_observado
    /\ input.i # input.C_observado
    /\ arg_i = input.i /\ arg_C_observado = input.C_observado

ServoDone == entry = "servo" /\ pc \in {"done", "raised"}

\* the total moment with the link term taken over each link's own distance
MomentWithOwnDistances(c) ==
    Add(Add(momento_superficie(c.massa_superficie_kg, c.lado_a_m, c.lado_b_m),
            momento_links(c.massa_links_kg, c.distancias_links_m)),
        momento_servomotor(c.raio_conexao_motor_m, c.massa_conexao_motor_kg))

\* C17: in torque_resultante_momento, and so in torque_total_kg_cm, the total moment
\* is M_superficie + M_links + M_conexao_motor with M_links computed from each link's
\* mass and that link's own distance (the distancias_links_m given to
\* torque_total_kg_cm); the motor-connection radius enters only the ring term.
C17_LinkMomentUsesLinkDistances ==
    ServoDone =>
        /\ servo.momento = MomentWithOwnDistances(servo)
        /\ servo.torque_momento =
               momento_para_torque(MomentWithOwnDistances(servo),
                                   servo.velocidade_servo_60_graus_por_seg)
        /\ servo.torque_total =
               Mul(Add(torque_resultante(servo.massa_superficie_kg,
                                         servo.distancia_centro_massa_m,
                                         servo.massa_links_kg,
                                         servo.distancias_links_m,
                                         servo.massa_pontos_rotacao_kg),
                       servo.torque_momento),
                   fator_conversao_Nm_kg_cm)
====
